---- MODULE Spec2Model ----
(***************************************************************************)
(* Session continuity and snapshot/rollback management                    *)
(* (src/src/servers/session_manager_server.py, class SessionStateManager). *)
(*                                                                         *)
(* The durable store is the SQLite database (one variable per table), the  *)
(* working set is SessionStateManager.active_sessions.  Every handler is   *)
(* an operator from a state record to a state record and a result, so     *)
(* that a handler calling another one (create_session, restore_snapshot,   *)
(* start_bug_fix_context, resolve_bug_fix_context and end_session all call *)
(* create_snapshot) is modelled as one step.  A raised exception keeps the *)
(* writes made before the raise: every `with sqlite3.connect(...)` block   *)
(* commits on its own, and the in-memory updates are not undone.           *)
(*                                                                         *)
(* Process supervision (src/src/orchestrator.py, MCPServerOrchestrator):   *)
(* the table of servers with their process handles, the running flag, and  *)
(* the monitor task of run().                                              *)
(***************************************************************************)
EXTENDS Integers, Sequences, FiniteSets, TLC

VARIABLES
    sessions,            \* table sessions: session_id -> row
    session_snapshots,   \* table session_snapshots, in insertion (rowid) order
    bug_fix_contexts,    \* table bug_fix_contexts, in insertion order
    session_continuity,  \* table session_continuity, in insertion order
    session_analytics,   \* table session_analytics, one entry per ended session
    active_sessions,     \* SessionStateManager.active_sessions
    clock,               \* int(datetime.now().timestamp()), whole seconds
    overlay_of,          \* history: snapshot_id -> the state_data it was created with
    budget,              \* calls the exploration still allows
    last,                \* the last call made and its outcome
    tasks,               \* event loop: the coroutines submitted, in submission order
    servers,             \* MCPServerOrchestrator.servers: name -> status, process
    running,             \* MCPServerOrchestrator.running
    monitoring,          \* run(): the monitor task exists
    reply                \* the last orchestrator call made and what it returned

vars == <<sessions, session_snapshots, bug_fix_contexts, session_continuity,
          session_analytics, active_sessions, clock, overlay_of, budget, last, tasks,
          servers, running, monitoring, reply>>

store == <<sessions, session_snapshots, bug_fix_contexts, session_continuity,
           session_analytics>>

\* the variables of the session manager, and those of the orchestrator
manager == <<store, active_sessions, clock, overlay_of, budget, last, tasks>>

orchestration == <<servers, running, monitoring, reply>>

(* ------------------------------ bounds --------------------------------- *)

MaxClock == 2

MaxSessions == 2

MaxAttempts == 1

MaxCalls == 5

LoopCalls == 2

LoopSeconds == 2

RingCalls == 2

RingSeconds == 2

ArgCalls == 3

RingCapacity == 50

(* ------------------------------ inputs --------------------------------- *)

ProjectIds == {"proj1"}

Technologies == {"python"}

\* context_data of create_session: None, or {'unresolved_issues': ['issue1']}
ContextInputs == {"none", "ctx1"}

\* the unresolved issues a caller reports when ending a session
Summaries == {"none", "issue1"}

NoOverlay ==
    [code_state |-> "absent", working_notes |-> "absent", bug_fixes |-> "absent"]

\* state documents a caller passes: None, one user key, or the working-state
\* key bug_fixes (an overlay key wins over the working state's)
Overlays ==
    {NoOverlay,
     [NoOverlay EXCEPT !.code_state = "v1"],
     [NoOverlay EXCEPT !.code_state = "v2"],
     [NoOverlay EXCEPT !.working_notes = "n1"],
     [NoOverlay EXCEPT !.bug_fixes = "empty"]}

\* what a caller passes to create_snapshot: a checkpoint with any state
\* document, or one of the types the manager itself uses at session start/end
CallerSnapshots ==
    {<<"checkpoint", state_data>> : state_data \in Overlays}
        \cup {<<"initial", NoOverlay>>, <<"final", NoOverlay>>}

PreFixOverlays ==
    {NoOverlay,
     [NoOverlay EXCEPT !.code_state = "v1"],
     [NoOverlay EXCEPT !.bug_fixes = "empty"]}

Outcomes == {"failed"}

Lessons == {"l1"}

NoTime == 0 - 1

(* ------------------------------ identities ----------------------------- *)

_generate_session_id(project_id, technology, now) == <<project_id, technology, now>>

SnapshotId(session_id, now) == <<"snap", session_id, now>>

ContextId(session_id, now) == <<"bugfix", session_id, now>>

BridgeId(new_session_id, previous_session_id) ==
    <<"bridge", new_session_id, previous_session_id>>

NoSession == <<"none", "none", 0>>

NoSnapshot == SnapshotId(NoSession, 0)

NoContext == ContextId(NoSession, 0)

(* ------------------------------ documents ------------------------------ *)

\* dict.update(state_data), guarded by `if state_data:` (None and {} are falsy)
MergeOverlay(doc, state_data) ==
    IF state_data = NoOverlay THEN doc
    ELSE [doc EXCEPT
            !.code_state = IF state_data.code_state # "absent"
                           THEN state_data.code_state ELSE @,
            !.working_notes = IF state_data.working_notes # "absent"
                              THEN state_data.working_notes ELSE @,
            !.bug_fixes = IF state_data.bug_fixes = "empty" THEN <<>> ELSE @]

\* json.dumps raises ValueError("Circular reference detected") when the
\* bug_fixes list holds a context whose pre_fix_state holds that same list
CircularReference(doc) ==
    \E i \in 1..Len(doc.bug_fixes) : doc.bug_fixes[i].alias

\* json.dumps(doc, default=str): datetime and deque values become their str()
JsonDumps(doc) ==
    [start_time |-> [kind |-> "str", t |-> doc.start_time.t],
     context |-> doc.context,
     snapshots |-> [kind |-> "str", items |-> doc.snapshots.items],
     bug_fixes |-> [i \in 1..Len(doc.bug_fixes) |->
                      [doc.bug_fixes[i] EXCEPT !.alias = FALSE]],
     code_state |-> doc.code_state,
     working_notes |-> doc.working_notes]

\* json.loads(zlib.decompress(blob)): the JSON text read back as str/list/dict
JsonLoads(text) == text

\* dict.update(restored_state): every key of the restored document overwrites
DictUpdate(session, restored_state) ==
    [start_time |-> restored_state.start_time,
     context |-> restored_state.context,
     snapshots |-> restored_state.snapshots,
     bug_fixes |-> restored_state.bug_fixes,
     code_state |-> IF restored_state.code_state # "absent"
                    THEN restored_state.code_state ELSE session.code_state,
     working_notes |-> IF restored_state.working_notes # "absent"
                       THEN restored_state.working_notes ELSE session.working_notes]

\* deque(maxlen=RingCapacity).append
DequeAppend(items, ref) ==
    LET a == Append(items, ref)
    IN  IF Len(a) > RingCapacity THEN Tail(a) ELSE a

(* ------------------------------ store access --------------------------- *)

Raise(st, exc) == [st |-> st, res |-> exc]

Return(st) == [st |-> st, res |-> "ok"]

HasSnapshot(st, snapshot_id) ==
    \E i \in 1..Len(st.session_snapshots) :
        st.session_snapshots[i].snapshot_id = snapshot_id

HasContext(st, context_id) ==
    \E i \in 1..Len(st.bug_fix_contexts) :
        st.bug_fix_contexts[i].context_id = context_id

\* the lookup without its session_id condition
FindSnapshotAnySession(st, session_id, snapshot_id) ==
    {i \in 1..Len(st.session_snapshots) :
        st.session_snapshots[i].snapshot_id = snapshot_id}

\* SELECT state_data FROM session_snapshots WHERE snapshot_id = ? AND session_id = ?
FindSnapshot(st, session_id, snapshot_id) ==
    {i \in 1..Len(st.session_snapshots) :
        /\ st.session_snapshots[i].snapshot_id = snapshot_id
        /\ st.session_snapshots[i].session_id = session_id}

\* the insert trimming the table the way the in-memory ring is trimmed
InsertSnapshotEvicting(rows, row) ==
    IF Len(rows) >= RingCapacity THEN Append(Tail(rows), row) ELSE Append(rows, row)

\* INSERT INTO session_snapshots (the primary key was checked by the caller)
InsertSnapshot(rows, row) == Append(rows, row)

\* end_session forgetting to drop the session from the working set
PopSessionKeeps(active, session_id) == active

\* self.active_sessions.pop(session_id)
PopSession(active, session_id) ==
    [s \in DOMAIN active \ {session_id} |-> active[s]]

(* ------------------------------ handlers ------------------------------- *)

create_snapshot(st, session_id, snapshot_type, description, state_data, now) ==
    IF session_id \notin DOMAIN st.active_sessions THEN Raise(st, "NotFound")
    ELSE
    LET snapshot_id == SnapshotId(session_id, now)
        session_state == MergeOverlay(st.active_sessions[session_id], state_data)
    IN  IF CircularReference(session_state) THEN Raise(st, "CircularReference")
        ELSE IF HasSnapshot(st, snapshot_id) THEN Raise(st, "IntegrityError")
        ELSE
        LET row == [snapshot_id |-> snapshot_id,
                    session_id |-> session_id,
                    snapshot_time |-> now,
                    snapshot_type |-> snapshot_type,
                    state_data |-> JsonDumps(session_state),
                    description |-> description]
            st1 == [st EXCEPT !.session_snapshots = InsertSnapshot(@, row)]
            ref == [snapshot_id |-> snapshot_id, type |-> snapshot_type]
        IN  IF st.active_sessions[session_id].snapshots.kind # "deque"
            THEN Raise(st1, "AttributeError")
            ELSE Return([st1 EXCEPT
                    !.active_sessions[session_id].snapshots.items = DequeAppend(@, ref)])

restore_snapshot(st, session_id, snapshot_id, now) ==
    LET found == FindSnapshot(st, session_id, snapshot_id)
    IN  IF found = {} THEN Raise(st, "NotFound")
        ELSE
        LET result == st.session_snapshots[CHOOSE i \in found : TRUE]
            restored_state == JsonLoads(result.state_data)
        IN  IF session_id \in DOMAIN st.active_sessions
            THEN create_snapshot(
                    [st EXCEPT !.active_sessions[session_id] = DictUpdate(@, restored_state)],
                    session_id, "restoration", "Restored from snapshot", NoOverlay, now)
            ELSE Return(st)

\* start_bug_fix_context up to its `await self.create_snapshot(...)`
start_bug_fix_head(st, session_id, pre_fix_state, now) ==
    IF session_id \notin DOMAIN st.active_sessions THEN Raise(st, "NotFound")
    ELSE
    LET context_id == ContextId(session_id, now)
        current_state == MergeOverlay(st.active_sessions[session_id], pre_fix_state)
        bug_context == [context_id |-> context_id,
                        status |-> "active",
                        resolution_time |-> NoTime,
                        alias |-> (pre_fix_state = NoOverlay
                                   \/ pre_fix_state.bug_fixes = "absent")]
    IN  IF CircularReference(current_state) THEN Raise(st, "CircularReference")
        ELSE IF HasContext(st, context_id) THEN Raise(st, "IntegrityError")
        ELSE
        LET row == [context_id |-> context_id,
                    session_id |-> session_id,
                    pre_fix_state |-> JsonDumps(current_state),
                    fix_attempts |-> <<>>,
                    solution_state |-> "NULL",
                    lessons_learned |-> "NULL",
                    created_at |-> now,
                    resolved_at |-> NoTime]
            st1 == [st EXCEPT
                      !.bug_fix_contexts = Append(@, row),
                      !.active_sessions[session_id].bug_fixes = Append(@, bug_context)]
        IN  Return(st1)

\* the awaited create_snapshot call that ends start_bug_fix_context
start_bug_fix_tail(st, session_id, now) ==
    create_snapshot(st, session_id, "pre_bug_fix", "Before fixing", NoOverlay, now)

start_bug_fix_context(st, session_id, pre_fix_state, now) ==
    LET head == start_bug_fix_head(st, session_id, pre_fix_state, now)
    IN  IF head.res # "ok" THEN head
        ELSE start_bug_fix_tail(head.st, session_id, now)

log_bug_fix_attempt(st, context_id, outcome, now) ==
    LET attempt == [timestamp |-> now, outcome |-> outcome]
    IN  Return([st EXCEPT !.bug_fix_contexts =
            [i \in 1..Len(@) |->
                IF @[i].context_id = context_id
                THEN [@[i] EXCEPT !.fix_attempts = Append(@, attempt)]
                ELSE @[i]]])

resolve_bug_fix_context(st, context_id, lessons_learned, now) ==
    LET holders == {sid \in DOMAIN st.active_sessions :
                      \E i \in 1..Len(st.active_sessions[sid].bug_fixes) :
                          st.active_sessions[sid].bug_fixes[i].context_id = context_id}
        marked == [sid \in DOMAIN st.active_sessions |->
                     [st.active_sessions[sid] EXCEPT !.bug_fixes =
                        [i \in 1..Len(@) |->
                            IF @[i].context_id = context_id
                            THEN [@[i] EXCEPT !.status = "resolved",
                                              !.resolution_time = now]
                            ELSE @[i]]]]
        st1 == [st EXCEPT !.active_sessions = marked]
    IN  IF holders # {} /\ \E sid \in holders : CircularReference(marked[sid])
        THEN Raise(st1, "CircularReference")
        ELSE
        LET solution_state == IF holders = {} THEN "null" ELSE "state"
            st2 == [st1 EXCEPT !.bug_fix_contexts =
                      [i \in 1..Len(@) |->
                          IF @[i].context_id = context_id
                          THEN [@[i] EXCEPT !.solution_state = solution_state,
                                            !.lessons_learned = lessons_learned,
                                            !.resolved_at = now]
                          ELSE @[i]]]
        IN  IF holders = {} THEN Return(st2)
            ELSE create_snapshot(st2, CHOOSE sid \in holders : TRUE,
                                 "post_bug_fix", "After fixing", NoOverlay, now)

_calculate_session_metrics(session_data) ==
    LET attempted == Len(session_data.bug_fixes)
        resolved == Cardinality({i \in 1..attempted :
                                    session_data.bug_fixes[i].status = "resolved"})
    IN  [snapshots_created |-> Len(session_data.snapshots.items),
         bug_fixes_attempted |-> attempted,
         bug_fixes_resolved |-> resolved,
         bug_fix_success_rate |->
            IF attempted > 0 THEN <<resolved, attempted>> ELSE <<1, 1>>]

\* the update of the session row leaving its status as it was
CompleteSessionKeepsStatus(row, now, final_data) ==
    [row EXCEPT !.end_time = now,
                !.context_data = [kind |-> "session_data", doc |-> JsonDumps(final_data)]]

\* UPDATE sessions SET end_time = CURRENT_TIMESTAMP, status = 'completed',
\* context_data = ?
CompleteSession(row, now, final_data) ==
    [row EXCEPT !.status = "completed",
                !.end_time = now,
                !.context_data = [kind |-> "session_data", doc |-> JsonDumps(final_data)]]

\* end_session up to its `await self.create_snapshot(...)`: the guard and
\* the metrics, which change nothing
end_session_head(st, session_id, now) ==
    IF session_id \notin DOMAIN st.active_sessions THEN Raise(st, "NotFound")
    ELSE IF st.active_sessions[session_id].start_time.kind # "datetime"
    THEN Raise(st, "TypeError")
    ELSE Return(st)

\* end_session from its awaited create_snapshot call on; metrics are the
\* values computed before the call
end_session_tail(st, session_id, summary, metrics, now) ==
    LET snap == create_snapshot(st, session_id, "final", <<"Session ended", summary>>,
                                NoOverlay, now)
    IN  IF snap.res # "ok" THEN snap
        ELSE
        LET final_data == snap.st.active_sessions[session_id]
        IN  Return([snap.st EXCEPT
                !.sessions[session_id] = CompleteSession(@, now, final_data),
                !.session_analytics = Append(@, [session_id |-> session_id,
                                                 metrics |-> metrics]),
                !.active_sessions = PopSession(@, session_id)])

end_session(st, session_id, summary, now) ==
    LET head == end_session_head(st, session_id, now)
    IN  IF head.res # "ok" THEN head
        ELSE end_session_tail(head.st, session_id, summary,
                              _calculate_session_metrics(st.active_sessions[session_id]),
                              now)

\* json.loads(context_data) of the previous session, None when there is no row
_get_session_context(st, session_id) ==
    IF session_id \in DOMAIN st.sessions
    THEN st.sessions[session_id].context_data
    ELSE [kind |-> "None"]

\* previous_context.get('unresolved_issues', []): a top-level key of the
\* document; a completed session's document holds its creation context
\* nested under the key 'context'
UnresolvedIssuesOf(previous_context) ==
    IF previous_context.kind = "creation" /\ previous_context.context = "ctx1"
    THEN <<"issue1">>
    ELSE <<>>

\* `if previous_context:` an empty dict is falsy
ContextTruthy(previous_context) ==
    \/ previous_context.kind = "session_data"
    \/ previous_context.kind = "creation" /\ previous_context.context # "none"

_create_session_bridge(st, new_session_id, previous_session_id) ==
    LET previous_context == _get_session_context(st, previous_session_id)
    IN  IF ContextTruthy(previous_context)
        THEN [st EXCEPT !.session_continuity = Append(@,
                [continuity_id |-> BridgeId(new_session_id, previous_session_id),
                 session_id |-> new_session_id,
                 previous_session_id |-> previous_session_id,
                 unresolved_issues |-> UnresolvedIssuesOf(previous_context)])]
        ELSE st

create_session(st, project_id, technology, previous_session_id, context_data, now) ==
    LET session_id == _generate_session_id(project_id, technology, now)
    IN  IF session_id \in DOMAIN st.sessions THEN Raise(st, "IntegrityError")
        ELSE
        LET row == [status |-> "active",
                    start_time |-> now,
                    end_time |-> NoTime,
                    context_data |-> [kind |-> "creation", context |-> context_data]]
            st1 == [st EXCEPT !.sessions =
                      [s \in DOMAIN @ \cup {session_id} |->
                          IF s = session_id THEN row ELSE @[s]]]
            st2 == IF previous_session_id # NoSession
                   THEN _create_session_bridge(st1, session_id, previous_session_id)
                   ELSE st1
            fresh == [start_time |-> [kind |-> "datetime", t |-> now],
                      context |-> context_data,
                      snapshots |-> [kind |-> "deque", items |-> <<>>],
                      bug_fixes |-> <<>>,
                      code_state |-> "absent",
                      working_notes |-> "absent"]
            st3 == [st2 EXCEPT !.active_sessions =
                      [s \in DOMAIN @ \cup {session_id} |->
                          IF s = session_id THEN fresh ELSE @[s]]]
        IN  create_snapshot(st3, session_id, "initial", "Session started", NoOverlay, now)

(* ------------------------------ prediction ---------------------------- *)

\* _get_session_data and json.loads(session_data['context_data']): the
\* context document of the session row
SessionContextData(st, session_id) == st.sessions[session_id].context_data

\* context_data.get('bug_fixes', []): the document written at creation has
\* no such key, the one written by end_session has the working state's list
BugFixesIn(context_data) ==
    IF context_data.kind = "session_data" THEN context_data.doc.bug_fixes ELSE <<>>

\* len([bf for bf in bug_fixes if bf.get('status') != 'resolved'])
UnresolvedBugs(bug_fixes) ==
    Cardinality({i \in 1..Len(bug_fixes) : bug_fixes[i].status # "resolved"})

\* _calculate_session_duration, in seconds
SessionDuration(st, session_id, now) == now - st.sessions[session_id].start_time

\* _get_historical_session_metrics: the average duration of the ended
\* sessions of the same project and technology, as the fraction
\* total / count of seconds; two hours when there is none or it is zero
HistoricalAverage(st, session_id) ==
    LET ended == {s \in DOMAIN st.sessions :
                    /\ s[1] = session_id[1]
                    /\ s[2] = session_id[2]
                    /\ st.sessions[s].end_time # NoTime}
        RECURSIVE Sum(_)
        Sum(S) == IF S = {} THEN 0
                  ELSE LET s == CHOOSE x \in S : TRUE
                       IN  (st.sessions[s].end_time - st.sessions[s].start_time)
                              + Sum(S \ {s})
        total == Sum(ended)
    IN  IF total = 0 THEN [total |-> 2 * 3600, count |-> 1]
        ELSE [total |-> total, count |-> Cardinality(ended)]

\* _predict_completion_probability, in hundredths
_predict_completion_probability(duration, unresolved_bugs, historical) ==
    LET by_duration ==
            IF 2 * duration * historical.count > 3 * historical.total THEN 80 - 20
            ELSE IF 2 * duration * historical.count < historical.total THEN 80 + 10
            ELSE 80
        base_probability ==
            IF unresolved_bugs > 2 THEN by_duration - 15 * unresolved_bugs
            ELSE by_duration
    IN  IF base_probability < 10 THEN 10
        ELSE IF base_probability > 100 THEN 100 ELSE base_probability

\* _predict_remaining_time, as a fraction of seconds with the denominator
\* historical.count: half an hour per unresolved bug, at least 15 minutes
_predict_remaining_time(duration, unresolved_bugs, historical) ==
    LET left == historical.total - duration * historical.count
        remaining == (IF left > 0 THEN left ELSE 0)
                        + unresolved_bugs * 1800 * historical.count
        least == 900 * historical.count
    IN  <<IF remaining > least THEN remaining ELSE least, historical.count>>

\* the two values of the prediction that the bug-fix contexts enter
Prediction(duration, unresolved_bugs, historical) ==
    [completion_probability |->
        _predict_completion_probability(duration, unresolved_bugs, historical),
     estimated_remaining_time |->
        _predict_remaining_time(duration, unresolved_bugs, historical)]

predict_session_outcome(st, session_id, now) ==
    IF session_id \notin DOMAIN st.sessions THEN [error |-> "Session not found"]
    ELSE Prediction(SessionDuration(st, session_id, now),
                    UnresolvedBugs(BugFixesIn(SessionContextData(st, session_id))),
                    HistoricalAverage(st, session_id))

(* ------------------------------ orchestrator --------------------------- *)

\* the keys of self.servers, and the order in which the dict yields them
ServerNames ==
    {"context_storage", "retrieval_engine", "intelligence_engine", "session_manager"}

ServerOrder ==
    <<"context_storage", "retrieval_engine", "intelligence_engine", "session_manager">>

startup_order == <<"context_storage", "retrieval_engine">>

\* list(reversed(self.startup_order))
shutdown_order == [i \in 1..Len(startup_order) |-> startup_order[Len(startup_order) + 1 - i]]

\* 'process': None
NoProcess == "None"

\* a process handle is modelled by the state of its process: "alive"
\* (returncode is None), "exited" (returncode set, the pipes still open) or
\* "closed" (returncode set and the transport closed)
ProcessStates == {"alive", "exited", "closed"}

\* what happens to asyncio.create_subprocess_exec and the two seconds after
\* it: the process is up, it has exited within the two seconds, the call
\* raised, or the script path does not exist
SpawnOutcomes == {"runs", "dies", "raises", "no_script"}

Answer(o, res) == [o |-> o, res |-> res]

\* process.returncode is None
IsAlive(process) == process # NoProcess /\ process = "alive"

start_server(o, server_name, outcome) ==
    IF server_name \notin DOMAIN o.servers THEN Answer(o, FALSE)
    ELSE IF o.servers[server_name].status = "running" THEN Answer(o, TRUE)
    ELSE IF outcome = "no_script" THEN Answer(o, FALSE)
    ELSE IF outcome = "raises"
    THEN Answer([o EXCEPT !.servers[server_name].status = "failed"], FALSE)
    ELSE
    \* a process that exited within the two seconds has had its pipes read
    \* to the end by communicate()
    Answer([o EXCEPT !.servers[server_name] =
                        [status |-> IF outcome = "runs" THEN "running" ELSE "failed",
                         process |-> IF outcome = "runs" THEN "alive" ELSE "closed"]],
           outcome = "runs")

\* process.terminate() raises ProcessLookupError once the transport of an
\* exited process has been closed; before that, and on a live process, it
\* returns and process.wait() completes
stop_server(o, server_name) ==
    IF server_name \notin DOMAIN o.servers THEN Answer(o, FALSE)
    ELSE IF o.servers[server_name].status # "running" THEN Answer(o, TRUE)
    ELSE
    LET process == o.servers[server_name].process
    IN  IF process = NoProcess THEN Answer(o, TRUE)
        ELSE IF process = "closed" THEN Answer(o, FALSE)
        ELSE Answer([o EXCEPT !.servers[server_name] =
                                 [status |-> "stopped", process |-> NoProcess]],
                    TRUE)

\* the loop of shutdown_all over self.shutdown_order, from position i on
RECURSIVE StopFrom(_, _, _)
StopFrom(o, i, success_count) ==
    IF i > Len(shutdown_order)
    THEN [o |-> o, success_count |-> success_count]
    ELSE LET r == stop_server(o, shutdown_order[i])
         IN  StopFrom(r.o, i + 1, IF r.res THEN success_count + 1 ELSE success_count)

shutdown_all(o) ==
    LET r == StopFrom(o, 1, 0)
    IN  Answer([r.o EXCEPT !.running = FALSE],
               r.success_count = Cardinality(DOMAIN o.servers))

\* the loop of start_all over self.startup_order, from position i on, and
\* what follows the loop (success_count is i - 1 there)
RECURSIVE StartFrom(_, _, _)
StartFrom(o, i, outcomes) ==
    IF i > Len(startup_order)
    THEN Answer([o EXCEPT !.running = TRUE], TRUE)
    ELSE LET r == start_server(o, startup_order[i], outcomes[i])
         IN  IF r.res THEN StartFrom(r.o, i + 1, outcomes)
             ELSE Answer(shutdown_all(r.o).o, FALSE)

start_all(o, outcomes) == StartFrom(o, 1, outcomes)

restart_server(o, server_name, outcome) ==
    LET stopped == stop_server(o, server_name)
    IN  IF stopped.res THEN start_server(stopped.o, server_name, outcome)
        ELSE Answer(stopped.o, FALSE)

restart_all(o, outcomes) ==
    LET down == shutdown_all(o)
    IN  IF down.res THEN start_all(down.o, outcomes)
        ELSE Answer(down.o, FALSE)

get_server_status(o) ==
    [system_status |-> IF o.running THEN "running" ELSE "stopped",
     servers |-> [n \in DOMAIN o.servers |->
                    [status |-> o.servers[n].status,
                     pid |-> IF o.servers[n].process # NoProcess
                             THEN <<"pid", n>> ELSE NoProcess]]]

health_check(o) ==
    [system_healthy |-> \A n \in DOMAIN o.servers : IsAlive(o.servers[n].process),
     servers |-> [n \in DOMAIN o.servers |->
                    IF IsAlive(o.servers[n].process) THEN "healthy" ELSE "unhealthy"]]

\* one round of monitor_servers: the loop over health['servers'], from
\* position i on
RECURSIVE MonitorFrom(_, _, _, _)
MonitorFrom(o, i, health, outcome) ==
    IF i > Len(ServerOrder) THEN o
    ELSE LET server_name == ServerOrder[i]
         IN  IF health.servers[server_name] = "unhealthy"
                    /\ o.servers[server_name].status = "running"
             THEN MonitorFrom(restart_server(o, server_name, outcome).o, i + 1,
                              health, outcome)
             ELSE MonitorFrom(o, i + 1, health, outcome)

monitor_servers(o, outcome) == MonitorFrom(o, 1, health_check(o), outcome)

\* MCPServerOrchestrator.__init__, and no process of its started yet
InitOrchestrator ==
    /\ servers = [n \in ServerNames |-> [status |-> "stopped", process |-> NoProcess]]
    /\ running = FALSE
    /\ monitoring = FALSE
    /\ reply = [op |-> "init", server_name |-> "none", spawn |-> <<>>, res |-> TRUE,
                report |-> [kind |-> "none"]]

(* ------------------------------ state machine -------------------------- *)

St ==
    [sessions |-> sessions,
     session_snapshots |-> session_snapshots,
     bug_fix_contexts |-> bug_fix_contexts,
     session_continuity |-> session_continuity,
     session_analytics |-> session_analytics,
     active_sessions |-> active_sessions]

SnapshotIdsOf(rows) == {rows[i].snapshot_id : i \in 1..Len(rows)}

\* the state after a handler ran; new snapshots are recorded with the
\* state_data they were created with
Apply(r, state_data) ==
    /\ budget' = budget - 1
    /\ sessions' = r.st.sessions
    /\ session_snapshots' = r.st.session_snapshots
    /\ bug_fix_contexts' = r.st.bug_fix_contexts
    /\ session_continuity' = r.st.session_continuity
    /\ session_analytics' = r.st.session_analytics
    /\ active_sessions' = r.st.active_sessions
    /\ overlay_of' = [id \in SnapshotIdsOf(r.st.session_snapshots) |->
                        IF id \in DOMAIN overlay_of THEN overlay_of[id] ELSE state_data]
    /\ UNCHANGED <<clock, tasks, orchestration>>

Call(op, session_id, snapshot_id, context_id, state_data, result) ==
    [op |-> op, session_id |-> session_id, snapshot_id |-> snapshot_id,
     context_id |-> context_id, state_data |-> state_data, result |-> result,
     previous_session_id |-> NoSession]

\* ids a caller can pass: those that exist, and one that does not
UnknownSession == <<"unknown", "unknown", 0>>

SessionIdInputs == DOMAIN sessions \cup {UnknownSession}

SnapshotIdInputs == SnapshotIdsOf(session_snapshots) \cup {SnapshotId(UnknownSession, 0)}

ContextIdInputs ==
    {bug_fix_contexts[i].context_id : i \in 1..Len(bug_fix_contexts)}
        \cup {ContextId(UnknownSession, 0)}

Init ==
    /\ sessions = <<>>
    /\ session_snapshots = <<>>
    /\ bug_fix_contexts = <<>>
    /\ session_continuity = <<>>
    /\ session_analytics = <<>>
    /\ active_sessions = <<>>
    /\ clock = 0
    /\ overlay_of = <<>>
    /\ budget = MaxCalls
    /\ last = Call("init", NoSession, NoSnapshot, NoContext, NoOverlay, "ok")
    /\ tasks = <<>>
    /\ InitOrchestrator

TickTo(bound) ==
    /\ clock < bound
    /\ clock' = clock + 1
    /\ last' = Call("tick", NoSession, NoSnapshot, NoContext, NoOverlay, "ok")
    /\ UNCHANGED <<store, active_sessions, overlay_of, budget, tasks, orchestration>>

Tick == TickTo(MaxClock)

CreateSessionWith(project_ids, technologies) ==
    /\ budget > 0
    /\ \E project_id \in project_ids, technology \in technologies,
       previous_session_id \in SessionIdInputs \cup {NoSession},
       context_data \in ContextInputs :
        /\ Cardinality(DOMAIN sessions) < MaxSessions
        /\ LET r == create_session(St, project_id, technology, previous_session_id,
                                   context_data, clock)
           IN  /\ Apply(r, NoOverlay)
               /\ last' = [Call("create_session",
                                _generate_session_id(project_id, technology, clock),
                                NoSnapshot, NoContext, NoOverlay, r.res)
                              EXCEPT !.previous_session_id = previous_session_id]

CreateSession == CreateSessionWith(ProjectIds, Technologies)

CreateSnapshot ==
    /\ budget > 0
    /\ \E session_id \in SessionIdInputs, input \in CallerSnapshots :
        LET snapshot_type == input[1]
            state_data == input[2]
            r == create_snapshot(St, session_id, snapshot_type, "desc", state_data, clock)
        IN  /\ Apply(r, state_data)
            /\ last' = Call("create_snapshot", session_id, SnapshotId(session_id, clock),
                            NoContext, NoOverlay, r.res)

RestoreSnapshot ==
    /\ budget > 0
    /\ \E session_id \in SessionIdInputs, snapshot_id \in SnapshotIdInputs :
        LET r == restore_snapshot(St, session_id, snapshot_id, clock)
        IN  /\ Apply(r, NoOverlay)
            /\ last' = Call("restore_snapshot", session_id, snapshot_id, NoContext,
                            NoOverlay, r.res)

StartBugFix ==
    /\ budget > 0
    /\ \E session_id \in SessionIdInputs, pre_fix_state \in PreFixOverlays :
        LET r == start_bug_fix_context(St, session_id, pre_fix_state, clock)
        IN  /\ Apply(r, NoOverlay)
            /\ last' = Call("start_bug_fix", session_id, NoSnapshot,
                            ContextId(session_id, clock), pre_fix_state, r.res)

LogAttempt ==
    /\ budget > 0
    /\ \E context_id \in ContextIdInputs, outcome \in Outcomes :
        /\ \A i \in 1..Len(bug_fix_contexts) :
              bug_fix_contexts[i].context_id = context_id
                  => Len(bug_fix_contexts[i].fix_attempts) < MaxAttempts
        /\ LET r == log_bug_fix_attempt(St, context_id, outcome, clock)
           IN  /\ Apply(r, NoOverlay)
               /\ last' = Call("log_attempt", NoSession, NoSnapshot, context_id,
                               NoOverlay, r.res)

ResolveBugFix ==
    /\ budget > 0
    /\ \E context_id \in ContextIdInputs, lessons_learned \in Lessons :
        LET r == resolve_bug_fix_context(St, context_id, lessons_learned, clock)
        IN  /\ Apply(r, NoOverlay)
            /\ last' = Call("resolve_bug_fix", NoSession, NoSnapshot, context_id,
                            NoOverlay, r.res)

EndSession ==
    /\ budget > 0
    /\ \E session_id \in SessionIdInputs, summary \in Summaries :
        LET r == end_session(St, session_id, summary, clock)
        IN  /\ Apply(r, NoOverlay)
            /\ last' = Call("end_session", session_id, NoSnapshot, NoContext,
                            NoOverlay, r.res)

Next ==
    \/ Tick
    \/ CreateSession
    \/ CreateSnapshot
    \/ RestoreSnapshot
    \/ StartBugFix
    \/ LogAttempt
    \/ ResolveBugFix
    \/ EndSession

Spec == Init /\ [][Next]_vars

(* ------------------ a session whose ring is already full --------------- *)

EmptyStore ==
    [sessions |-> <<>>,
     session_snapshots |-> <<>>,
     bug_fix_contexts |-> <<>>,
     session_continuity |-> <<>>,
     session_analytics |-> <<>>,
     active_sessions |-> <<>>]

RingSession == _generate_session_id("proj1", "python", 0)

\* one checkpoint in each of the seconds k..n, applied to the state st
RECURSIVE FillFrom(_, _, _)
FillFrom(st, k, n) ==
    IF k > n
    THEN st
    ELSE LET r == create_snapshot(st, RingSession, "checkpoint", "desc", NoOverlay, k)
         IN  IF r.res = "ok" THEN FillFrom(r.st, k + 1, n) ELSE r.st

\* create_session at second 0, then one checkpoint in each of the seconds 1..n
Filled(n) ==
    FillFrom(create_session(EmptyStore, "proj1", "python", NoSession, "none", 0).st, 1, n)

\* the state after those calls: the ring holds RingCapacity references
InitRing ==
    LET st == Filled(RingCapacity - 1)
    IN  /\ sessions = st.sessions
        /\ session_snapshots = st.session_snapshots
        /\ bug_fix_contexts = st.bug_fix_contexts
        /\ session_continuity = st.session_continuity
        /\ session_analytics = st.session_analytics
        /\ active_sessions = st.active_sessions
        /\ clock = RingCapacity - 1
        /\ overlay_of = [id \in SnapshotIdsOf(st.session_snapshots) |-> NoOverlay]
        /\ budget = RingCalls
        /\ last = Call("create_snapshot", RingSession,
                       SnapshotId(RingSession, RingCapacity - 1), NoContext, NoOverlay, "ok")
        /\ tasks = <<>>
        /\ InitOrchestrator

RingTick == TickTo(RingCapacity - 1 + RingSeconds)

NextRing ==
    \/ RingTick
    \/ CreateSession
    \/ CreateSnapshot
    \/ RestoreSnapshot
    \/ StartBugFix
    \/ LogAttempt
    \/ ResolveBugFix
    \/ EndSession

SpecRing == InitRing /\ [][NextRing]_vars

(* ------------------ callers that pass empty arguments ------------------ *)

\* project_id and technology as a caller may pass them, the empty string
\* included
ProjectIdInputs == {"proj1", ""}

TechnologyInputs == {"python", ""}

InitArgs ==
    /\ sessions = <<>>
    /\ session_snapshots = <<>>
    /\ bug_fix_contexts = <<>>
    /\ session_continuity = <<>>
    /\ session_analytics = <<>>
    /\ active_sessions = <<>>
    /\ clock = 0
    /\ overlay_of = <<>>
    /\ budget = ArgCalls
    /\ last = Call("init", NoSession, NoSnapshot, NoContext, NoOverlay, "ok")
    /\ tasks = <<>>
    /\ InitOrchestrator

CreateSessionAnyArgs == CreateSessionWith(ProjectIdInputs, TechnologyInputs)

NextArgs ==
    \/ Tick
    \/ CreateSessionAnyArgs
    \/ CreateSnapshot
    \/ RestoreSnapshot
    \/ StartBugFix
    \/ LogAttempt
    \/ ResolveBugFix
    \/ EndSession

SpecArgs == InitArgs /\ [][NextArgs]_vars

(* ------------- coroutines submitted together to the event loop ---------- *)

\* whether `await self.create_snapshot(...)` hands control back to the event
\* loop when it is suspended on every await
AwaitAlwaysYields(op) == TRUE

\* whether `await self.create_snapshot(...)` hands control back to the event
\* loop before the awaited coroutine has finished: awaiting a coroutine runs
\* it inline, and no coroutine of the manager awaits a pending future (the
\* sqlite3 calls block), so no await of the manager suspends its task
AwaitYields(op) == FALSE

\* the operations submitted as tasks, with their state documents
TaskInputs ==
    {<<"create_snapshot", NoOverlay>>,
     <<"start_bug_fix", NoOverlay>>,
     <<"start_bug_fix", [NoOverlay EXCEPT !.bug_fixes = "empty"]>>,
     <<"end_session", NoOverlay>>}

\* the part of a task's coroutine that runs before its first await
TaskHead(st, task, now) ==
    CASE task.op = "start_bug_fix" ->
            start_bug_fix_head(st, task.session_id, task.state_data, now)
      [] task.op = "end_session" -> end_session_head(st, task.session_id, now)
      [] OTHER -> Return(st)

\* the part of a task's coroutine that runs from its first await on
TaskTail(st, task, metrics, now) ==
    CASE task.op = "start_bug_fix" -> start_bug_fix_tail(st, task.session_id, now)
      [] task.op = "end_session" ->
            end_session_tail(st, task.session_id, "none", metrics, now)
      [] OTHER -> create_snapshot(st, task.session_id, "checkpoint", "desc",
                                  task.state_data, now)

\* the same call made on its own, as one uninterrupted handler
TaskWhole(st, task, now) ==
    CASE task.op = "start_bug_fix" ->
            start_bug_fix_context(st, task.session_id, task.state_data, now)
      [] task.op = "end_session" -> end_session(st, task.session_id, "none", now)
      [] OTHER -> create_snapshot(st, task.session_id, "checkpoint", "desc",
                                  task.state_data, now)

\* the metrics end_session computes before its await (line 380)
TaskMetrics(st, task) ==
    IF task.op = "end_session" /\ task.session_id \in DOMAIN st.active_sessions
    THEN _calculate_session_metrics(st.active_sessions[task.session_id])
    ELSE [snapshots_created |-> 0, bug_fixes_attempted |-> 0,
          bug_fixes_resolved |-> 0, bug_fix_success_rate |-> <<1, 1>>]

LoopSessionB == _generate_session_id("proj1", "python", 1)

\* two sessions, created one second apart, and no task submitted yet
InitLoop ==
    LET st0 == create_session(EmptyStore, "proj1", "python", NoSession, "none", 0).st
        st == create_session(st0, "proj1", "python", NoSession, "none", 1).st
    IN  /\ sessions = st.sessions
        /\ session_snapshots = st.session_snapshots
        /\ bug_fix_contexts = st.bug_fix_contexts
        /\ session_continuity = st.session_continuity
        /\ session_analytics = st.session_analytics
        /\ active_sessions = st.active_sessions
        /\ clock = 1
        /\ overlay_of = [id \in SnapshotIdsOf(st.session_snapshots) |-> NoOverlay]
        /\ budget = LoopCalls
        /\ last = Call("create_session", LoopSessionB, NoSnapshot, NoContext, NoOverlay, "ok")
        /\ tasks = <<>>
        /\ InitOrchestrator

LoopTick == TickTo(1 + LoopSeconds)

\* a caller hands a coroutine to the event loop; nothing of it has run yet
Submit ==
    /\ budget > 0
    /\ \E session_id \in DOMAIN sessions, input \in TaskInputs :
          /\ tasks' = Append(tasks, [op |-> input[1],
                                     session_id |-> session_id,
                                     state_data |-> input[2],
                                     pc |-> "ready",
                                     overlapped |-> FALSE,
                                     metrics |-> TaskMetrics(EmptyStore, [op |-> "none"]),
                                     res |-> "pending"])
          /\ budget' = budget - 1
          /\ last' = Call("submit", session_id, NoSnapshot, NoContext, input[2], "ok")
          /\ UNCHANGED <<store, active_sessions, clock, overlay_of, orchestration>>

\* the state after the event loop ran a piece of a coroutine
ApplyLoop(r) ==
    /\ sessions' = r.st.sessions
    /\ session_snapshots' = r.st.session_snapshots
    /\ bug_fix_contexts' = r.st.bug_fix_contexts
    /\ session_continuity' = r.st.session_continuity
    /\ session_analytics' = r.st.session_analytics
    /\ active_sessions' = r.st.active_sessions
    /\ overlay_of' = [id \in SnapshotIdsOf(r.st.session_snapshots) |->
                        IF id \in DOMAIN overlay_of THEN overlay_of[id] ELSE NoOverlay]
    /\ UNCHANGED <<clock, budget, orchestration>>

\* the event loop runs one task that is ready or suspended until the task
\* suspends at an await or finishes
RunTask ==
    \E t \in 1..Len(tasks) :
        LET task == tasks[t]
            overlaps == \E u \in 1..Len(tasks) :
                            /\ u # t
                            /\ tasks[u].pc # "done"
                            /\ tasks[u].session_id = task.session_id
            head == TaskHead(St, task, clock)
            metrics == IF task.pc = "ready" THEN TaskMetrics(St, task) ELSE task.metrics
            r == IF task.pc = "suspended" THEN TaskTail(St, task, metrics, clock)
                 ELSE IF head.res # "ok" \/ AwaitYields(task.op) THEN head
                 ELSE TaskTail(head.st, task, metrics, clock)
            suspends == task.pc = "ready" /\ head.res = "ok" /\ AwaitYields(task.op)
        IN  /\ task.pc # "done"
            /\ ApplyLoop(r)
            /\ tasks' = [tasks EXCEPT ![t] =
                            [@ EXCEPT !.pc = IF suspends THEN "suspended" ELSE "done",
                                      !.overlapped = @ \/ overlaps,
                                      !.metrics = metrics,
                                      !.res = IF suspends THEN "pending" ELSE r.res]]
            /\ last' = Call(task.op, task.session_id, NoSnapshot, NoContext,
                            task.state_data, IF suspends THEN "pending" ELSE r.res)

NextLoop ==
    \/ LoopTick
    \/ Submit
    \/ RunTask

SpecLoop == InitLoop /\ [][NextLoop]_vars

(* ------------------------- process supervision -------------------------- *)

\* the orchestrator object and the processes behind its handles
O == [servers |-> servers, running |-> running]

NoReport == [kind |-> "none"]

\* the state after an orchestrator method ran, and what it returned
ApplyO(r, op, server_name, spawn, report) ==
    /\ servers' = r.o.servers
    /\ running' = r.o.running
    /\ reply' = [op |-> op, server_name |-> server_name, spawn |-> spawn,
                 res |-> r.res, report |-> report]
    /\ UNCHANGED manager

\* the names a caller passes to the single-server methods: a server of the
\* startup order, a registered server outside it, and an unregistered name
ServerNameInputs == {"context_storage", "session_manager", "unknown"}

StartupOutcomes == [1..Len(startup_order) -> SpawnOutcomes]

StartServer ==
    \E server_name \in ServerNameInputs, outcome \in SpawnOutcomes :
        /\ ApplyO(start_server(O, server_name, outcome), "start_server", server_name,
                  <<outcome>>, NoReport)
        /\ UNCHANGED monitoring

StopServer ==
    \E server_name \in ServerNameInputs :
        /\ ApplyO(stop_server(O, server_name), "stop_server", server_name, <<>>,
                  NoReport)
        /\ UNCHANGED monitoring

RestartServer ==
    \E server_name \in ServerNameInputs, outcome \in SpawnOutcomes :
        /\ ApplyO(restart_server(O, server_name, outcome), "restart_server", server_name,
                  <<outcome>>, NoReport)
        /\ UNCHANGED monitoring

StartAll ==
    \E outcomes \in StartupOutcomes :
        /\ ApplyO(start_all(O, outcomes), "start_all", "none", outcomes, NoReport)
        /\ UNCHANGED monitoring

\* called directly, or as the task the signal handler creates
ShutdownAll ==
    /\ ApplyO(shutdown_all(O), "shutdown_all", "none", <<>>, NoReport)
    /\ UNCHANGED monitoring

RestartAll ==
    \E outcomes \in StartupOutcomes :
        /\ ApplyO(restart_all(O, outcomes), "restart_all", "none", outcomes, NoReport)
        /\ UNCHANGED monitoring

GetServerStatus ==
    /\ ApplyO(Answer(O, TRUE), "get_server_status", "none", <<>>,
              [kind |-> "status", status |-> get_server_status(O)])
    /\ UNCHANGED monitoring

HealthCheck ==
    /\ ApplyO(Answer(O, TRUE), "health_check", "none", <<>>,
              [kind |-> "health", health |-> health_check(O)])
    /\ UNCHANGED monitoring

\* run() up to the creation of the monitor task
Run ==
    /\ ~monitoring
    /\ \E outcomes \in StartupOutcomes :
          LET r == start_all(O, outcomes)
          IN  /\ ApplyO(r, "run", "none", outcomes, NoReport)
              /\ monitoring' = r.res

\* run() once self.running is false: the monitor task is cancelled and the
\* servers are shut down
RunExit ==
    /\ monitoring
    /\ ~running
    /\ ApplyO(Answer(shutdown_all(O).o, TRUE), "run_exit", "none", <<>>, NoReport)
    /\ monitoring' = FALSE

\* one round of the loop of monitor_servers
MonitorServers(outcome) ==
    /\ monitoring
    /\ running
    /\ ApplyO(Answer(monitor_servers(O, outcome), TRUE), "monitor_servers", "none",
              <<outcome>>, NoReport)
    /\ UNCHANGED monitoring

\* a server process exits on its own; its handle now has a returncode
ProcessDies ==
    \E n \in ServerNames :
        /\ servers[n].process = "alive"
        /\ servers' = [servers EXCEPT ![n].process = "exited"]
        /\ UNCHANGED <<manager, running, monitoring, reply>>

\* the pipes of an exited process reach end of file and the event loop
\* closes the transport of its handle
TransportCloses ==
    \E n \in ServerNames :
        /\ servers[n].process = "exited"
        /\ servers' = [servers EXCEPT ![n].process = "closed"]
        /\ UNCHANGED <<manager, running, monitoring, reply>>

NextOrch ==
    \/ StartServer
    \/ StopServer
    \/ RestartServer
    \/ StartAll
    \/ ShutdownAll
    \/ RestartAll
    \/ GetServerStatus
    \/ HealthCheck
    \/ Run
    \/ RunExit
    \/ \E outcome \in SpawnOutcomes : MonitorServers(outcome)
    \/ ProcessDies
    \/ TransportCloses

SpecOrch == Init /\ [][NextOrch]_vars

\* the monitor task is scheduled every 30 seconds for as long as it exists,
\* and the processes it spawns come up
SpecOrchFair == SpecOrch /\ WF_vars(MonitorServers("runs"))

(* ------------------------------ claims --------------------------------- *)

\* the persisted snapshot sequence of a session, in insertion order
SnapsOf(rows, session_id) ==
    SelectSeq(rows, LAMBDA row : row.session_id = session_id)

\* the persisted bug-fix contexts of a session, in insertion order
ContextsOf(rows, session_id) ==
    SelectSeq(rows, LAMBDA row : row.session_id = session_id)

IsPrefix(p, q) ==
    /\ Len(p) <= Len(q)
    /\ \A i \in 1..Len(p) : q[i] = p[i]

TypeCount(q, snapshot_type) ==
    Cardinality({i \in 1..Len(q) : q[i].snapshot_type = snapshot_type})

\* C1: in every reachable state the persisted snapshot sequence of every
\* session holds exactly one snapshot of type initial, and it is the first.
C1_ExactlyOneInitialFirst ==
    \A s \in DOMAIN sessions :
        LET q == SnapsOf(session_snapshots, s)
        IN  /\ Len(q) >= 1
            /\ q[1].snapshot_type = "initial"
            /\ TypeCount(q, "initial") = 1

\* C2: once a session is completed its persisted snapshot sequence holds
\* exactly one snapshot of type final, that snapshot is the last one, and no
\* later step appends a snapshot to the sequence.
C2_ExactlyOneFinalLast ==
    [][\A s \in DOMAIN sessions :
          LET q == SnapsOf(session_snapshots, s)
          IN  /\ sessions[s].status = "completed" =>
                    /\ Len(q) >= 1
                    /\ q[Len(q)].snapshot_type = "final"
                    /\ TypeCount(q, "final") = 1
                    /\ SnapsOf(session_snapshots', s) = q]_vars

\* C3: a session's status goes active -> completed once (by a successful
\* end_session on it) and never back; end_session on a session id that is
\* unknown or already completed fails with NotFound and changes neither the
\* durable store nor the working set.
C3_CompletedOnceEndRejected ==
    [][/\ \A s \in DOMAIN sessions :
            /\ s \in DOMAIN sessions'
            /\ sessions[s].status = "completed" => sessions'[s].status = "completed"
            /\ (sessions[s].status = "active" /\ sessions'[s].status = "completed")
                    => (last'.op = "end_session" /\ last'.session_id = s
                            /\ last'.result = "ok")
       /\ (/\ last'.op = "end_session"
           /\ \/ last'.session_id \notin DOMAIN sessions
              \/ sessions[last'.session_id].status = "completed")
            => (last'.result = "NotFound" /\ UNCHANGED <<store, active_sessions>>)]_vars

\* end_session was called on a session that was already completed
C3_Witness ==
    /\ last.op = "end_session"
    /\ last.result = "NotFound"
    /\ last.session_id \in DOMAIN sessions
    /\ sessions[last.session_id].status = "completed"

\* C4: every restore_snapshot(T, S) that returns a restored state appends
\* exactly one new restoration snapshot to T's persisted sequence, every
\* earlier snapshot staying in place unchanged.
C4_RestoreAppendsRestoration ==
    [][(last'.op = "restore_snapshot" /\ last'.result = "ok") =>
          LET old == SnapsOf(session_snapshots, last'.session_id)
              new == SnapsOf(session_snapshots', last'.session_id)
          IN  /\ Len(new) = Len(old) + 1
              /\ IsPrefix(old, new)
              /\ new[Len(new)].snapshot_type = "restoration"]_vars

\* the snapshot id names a persisted snapshot of that session
BelongsTo(snapshot_id, session_id) ==
    \E i \in 1..Len(session_snapshots) :
        /\ session_snapshots[i].snapshot_id = snapshot_id
        /\ session_snapshots[i].session_id = session_id

\* C5: restore_snapshot with a snapshot id that does not belong to the given
\* session id (or does not exist) fails with NotFound and leaves the working
\* states, their rings and all persisted snapshots unchanged.
C5_ForeignSnapshotRejected ==
    [][(last'.op = "restore_snapshot"
            /\ ~BelongsTo(last'.snapshot_id, last'.session_id))
          => (last'.result = "NotFound" /\ UNCHANGED <<store, active_sessions>>)]_vars

\* restore_snapshot was called on an active session with the id of a
\* snapshot that another session owns
C5_Witness ==
    /\ last.op = "restore_snapshot"
    /\ last.result = "NotFound"
    /\ last.session_id \in DOMAIN active_sessions
    /\ \E i \in 1..Len(session_snapshots) :
          /\ session_snapshots[i].snapshot_id = last.snapshot_id
          /\ session_snapshots[i].session_id # last.session_id

\* the working state shows every key of the state document with its value
ShowsOverlay(session, state_data) ==
    /\ state_data.code_state # "absent" => session.code_state = state_data.code_state
    /\ state_data.working_notes # "absent"
            => session.working_notes = state_data.working_notes
    /\ state_data.bug_fixes = "empty" => session.bug_fixes = <<>>

\* C6: round trip. restore_snapshot on an active session of a snapshot of
\* that session that was created with state document D returns the restored
\* state, and the working state then holds every key of D with D's value,
\* also when other keys were added to the working state in between.
C6_RoundTrip ==
    (/\ last.op = "restore_snapshot"
     /\ last.session_id \in DOMAIN active_sessions
     /\ BelongsTo(last.snapshot_id, last.session_id))
        => /\ last.result = "ok"
           /\ ShowsOverlay(active_sessions[last.session_id], overlay_of[last.snapshot_id])

\* C7: no step deletes or modifies a persisted snapshot: the table is only
\* ever extended at its end, so each session's persisted sequence is
\* unchanged or extended, also in the steps in which the ring evicts.
C7_SnapshotsAppendOnly ==
    [][/\ IsPrefix(session_snapshots, session_snapshots')
       /\ \A s \in DOMAIN sessions :
             IsPrefix(SnapsOf(session_snapshots, s), SnapsOf(session_snapshots', s))]_vars

\* the ring of an active session has evicted its oldest reference while the
\* store still holds the snapshot that reference named
C7_Witness ==
    \E s \in DOMAIN active_sessions :
        LET ring == active_sessions[s].snapshots
            q == SnapsOf(session_snapshots, s)
        IN  /\ ring.kind = "deque"
            /\ Len(ring.items) = RingCapacity
            /\ Len(q) > RingCapacity
            /\ q[1].snapshot_type = "initial"
            /\ ring.items[1].snapshot_id # q[1].snapshot_id

\* the last n entries of a sequence
LastOf(q, n) == SubSeq(q, Len(q) - n + 1, Len(q))

\* C8: in every reachable state each active session's in-memory list of
\* recent snapshot references holds at most RingCapacity entries, and they
\* are the most recent snapshots of its persisted sequence in creation order.
C8_RingMirrorsStore ==
    \A s \in DOMAIN active_sessions :
        LET ring == active_sessions[s].snapshots
            q == SnapsOf(session_snapshots, s)
        IN  /\ ring.kind = "deque"
            /\ Len(ring.items) <= RingCapacity
            /\ Len(ring.items) <= Len(q)
            /\ (Len(q) <= RingCapacity => Len(ring.items) = Len(q))
            /\ LET recent == LastOf(q, Len(ring.items))
               IN  \A i \in 1..Len(ring.items) :
                      /\ ring.items[i].snapshot_id = recent[i].snapshot_id
                      /\ ring.items[i].type = recent[i].snapshot_type

\* C9: after a session is completed no step changes its session row, its
\* snapshots or its bug-fix contexts (attempt lists and resolution fields).
C9_CompletedIsReadOnly ==
    [][\A s \in DOMAIN sessions :
          sessions[s].status = "completed" =>
              /\ s \in DOMAIN sessions'
              /\ sessions'[s] = sessions[s]
              /\ SnapsOf(session_snapshots', s) = SnapsOf(session_snapshots, s)
              /\ ContextsOf(bug_fix_contexts', s) = ContextsOf(bug_fix_contexts, s)]_vars

\* no snapshot and no bug-fix context of the session carries this second yet
FreshSecond(session_id, now) ==
    /\ \A i \in 1..Len(session_snapshots) :
          session_snapshots[i].snapshot_id # SnapshotId(session_id, now)
    /\ \A i \in 1..Len(bug_fix_contexts) :
          bug_fix_contexts[i].context_id # ContextId(session_id, now)

\* C10: start_bug_fix on an active session (here: in a second in which the
\* session has no snapshot or context yet) adds one bug-fix context, active,
\* with an empty attempt list and the working state merged with the overlay
\* as pre_fix_state, and appends exactly one pre_bug_fix snapshot; on a
\* session that is not active it fails and adds neither.
C10_StartBugFixEffect ==
    [][last'.op = "start_bug_fix" =>
          LET s == last'.session_id
              oldc == ContextsOf(bug_fix_contexts, s)
              newc == ContextsOf(bug_fix_contexts', s)
              olds == SnapsOf(session_snapshots, s)
              news == SnapsOf(session_snapshots', s)
          IN  IF s \in DOMAIN sessions /\ sessions[s].status = "active"
              THEN FreshSecond(s, clock) =>
                      /\ Len(newc) = Len(oldc) + 1
                      /\ IsPrefix(oldc, newc)
                      /\ newc[Len(newc)].fix_attempts = <<>>
                      /\ newc[Len(newc)].resolved_at = NoTime
                      /\ newc[Len(newc)].pre_fix_state.code_state =
                            (IF last'.state_data.code_state # "absent"
                             THEN last'.state_data.code_state
                             ELSE active_sessions[s].code_state)
                      /\ Len(news) = Len(olds) + 1
                      /\ IsPrefix(olds, news)
                      /\ news[Len(news)].snapshot_type = "pre_bug_fix"
              ELSE /\ last'.result # "ok"
                   /\ bug_fix_contexts' = bug_fix_contexts
                   /\ session_snapshots' = session_snapshots]_vars

\* the persisted rows of the bug-fix context with this id (none or one)
ContextRows(rows, context_id) ==
    SelectSeq(rows, LAMBDA row : row.context_id = context_id)

\* the context is persisted and its resolution has been recorded
IsResolved(rows, context_id) ==
    \E i \in 1..Len(rows) :
        rows[i].context_id = context_id /\ rows[i].resolved_at # NoTime

\* C11: a bug-fix context is resolved at most once: resolve_bug_fix on a
\* context that is already resolved is rejected and leaves the context's
\* solution, lessons and resolution timestamp and every session's snapshot
\* sequence unchanged.
C11_ResolveOnce ==
    [][(last'.op = "resolve_bug_fix" /\ IsResolved(bug_fix_contexts, last'.context_id))
          => /\ last'.result # "ok"
             /\ bug_fix_contexts' = bug_fix_contexts
             /\ session_snapshots' = session_snapshots]_vars

\* C12: resolve_bug_fix on an unresolved context whose parent session is
\* active (in a second in which that session has no snapshot yet) returns,
\* records resolution time, solution and lessons in the store, marks the
\* context resolved in the working state, and appends exactly one
\* post_bug_fix snapshot to the parent session.
C12_ResolveEffect ==
    [][\A i \in 1..Len(bug_fix_contexts) :
          LET row == bug_fix_contexts[i]
              s == row.session_id
              olds == SnapsOf(session_snapshots, s)
              news == SnapsOf(session_snapshots', s)
          IN  (/\ last'.op = "resolve_bug_fix"
               /\ row.context_id = last'.context_id
               /\ row.resolved_at = NoTime
               /\ s \in DOMAIN active_sessions
               /\ ~HasSnapshot(St, SnapshotId(s, clock)))
                => /\ last'.result = "ok"
                   /\ bug_fix_contexts'[i].resolved_at # NoTime
                   /\ bug_fix_contexts'[i].solution_state = "state"
                   /\ bug_fix_contexts'[i].lessons_learned \in Lessons
                   /\ s \in DOMAIN active_sessions'
                   /\ \E k \in 1..Len(active_sessions'[s].bug_fixes) :
                         /\ active_sessions'[s].bug_fixes[k].context_id = row.context_id
                         /\ active_sessions'[s].bug_fixes[k].status = "resolved"
                   /\ Len(news) = Len(olds) + 1
                   /\ IsPrefix(olds, news)
                   /\ news[Len(news)].snapshot_type = "post_bug_fix"]_vars

\* C13: log_attempt with a context id that names no persisted context fails
\* (the caller gets an error) and changes nothing in the store.
C13_LogUnknownRejected ==
    [][(last'.op = "log_attempt"
            /\ ContextRows(bug_fix_contexts, last'.context_id) = <<>>)
          => (last'.result # "ok" /\ UNCHANGED store)]_vars

\* C14: log_attempt on a resolved context is rejected and leaves its attempt
\* list unchanged; on an unresolved context it appends exactly one attempt
\* at the end of the list and leaves the earlier attempts unchanged.
C14_LogAttemptEffect ==
    [][\A i \in 1..Len(bug_fix_contexts) :
          LET row == bug_fix_contexts[i]
          IN  (last'.op = "log_attempt" /\ row.context_id = last'.context_id)
                => IF row.resolved_at # NoTime
                   THEN /\ last'.result # "ok"
                        /\ bug_fix_contexts'[i].fix_attempts = row.fix_attempts
                   ELSE /\ last'.result = "ok"
                        /\ Len(bug_fix_contexts'[i].fix_attempts) = Len(row.fix_attempts) + 1
                        /\ IsPrefix(row.fix_attempts, bug_fix_contexts'[i].fix_attempts)]_vars

\* C15: create_session with a previous_session_id (and a session id not yet
\* in use) always creates the new session: persisted row, working state and
\* initial snapshot. It persists exactly one bridge row linking the new
\* session to the previous one when the previous session's row, and with it
\* its context document, is in the store, and none when it is not.
C15_BridgeOnCreate ==
    [][(/\ last'.op = "create_session"
        /\ last'.previous_session_id # NoSession
        /\ last'.session_id \notin DOMAIN sessions)
          => LET new == last'.session_id
                 prev == last'.previous_session_id
                 snaps == SnapsOf(session_snapshots', new)
                 n == Len(session_continuity')
             IN  /\ last'.result = "ok"
                 /\ new \in DOMAIN sessions'
                 /\ new \in DOMAIN active_sessions'
                 /\ Len(snaps) = 1
                 /\ snaps[1].snapshot_type = "initial"
                 /\ IF prev \in DOMAIN sessions
                    THEN /\ n = Len(session_continuity) + 1
                         /\ IsPrefix(session_continuity, session_continuity')
                         /\ session_continuity'[n].session_id = new
                         /\ session_continuity'[n].previous_session_id = prev
                    ELSE session_continuity' = session_continuity]_vars

\* the session was ended by a call that reported this unresolved issue
EndedWith(session_id, issue) ==
    /\ session_id \in DOMAIN sessions
    /\ sessions[session_id].status = "completed"
    /\ \E i \in 1..Len(session_snapshots) :
          /\ session_snapshots[i].session_id = session_id
          /\ session_snapshots[i].snapshot_type = "final"
          /\ session_snapshots[i].description = <<"Session ended", issue>>

\* C16: when session A was ended with a recorded unresolved issue and
\* session B is then created with previous_session_id = A, a bridge row is
\* persisted for B that references A and whose unresolved-issues list holds
\* that issue.
C16_BridgeCarriesIssues ==
    [][(/\ last'.op = "create_session"
        /\ last'.session_id \notin DOMAIN sessions
        /\ EndedWith(last'.previous_session_id, "issue1"))
          => \E i \in 1..Len(session_continuity') :
                LET bridge == session_continuity'[i]
                IN  /\ bridge.session_id = last'.session_id
                    /\ bridge.previous_session_id = last'.previous_session_id
                    /\ \E k \in 1..Len(bridge.unresolved_issues) :
                          bridge.unresolved_issues[k] = "issue1"]_vars

\* the metrics end_session stored for the session (the values it returns)
MetricsOf(rows, session_id) ==
    LET found == SelectSeq(rows, LAMBDA row : row.session_id = session_id)
    IN  found[Len(found)].metrics

\* the number of persisted contexts of the session with a recorded resolution
ResolvedCount(rows, session_id) ==
    Len(SelectSeq(rows, LAMBDA row : row.session_id = session_id
                                        /\ row.resolved_at # NoTime))

\* C17: end_session on an active session (in a second in which the session
\* has no snapshot yet) returns metrics in which bug_fixes_attempted is the
\* number of bug-fix contexts opened in the session, bug_fixes_resolved the
\* number of those that were resolved, and bug_fix_success_rate their ratio
\* (1.0 when none was opened), whatever operations preceded it.
C17_MetricsCountContexts ==
    [][(/\ last'.op = "end_session"
        /\ last'.session_id \in DOMAIN active_sessions
        /\ ~HasSnapshot(St, SnapshotId(last'.session_id, clock)))
          => LET s == last'.session_id
                 opened == Len(ContextsOf(bug_fix_contexts, s))
                 resolved == ResolvedCount(bug_fix_contexts, s)
             IN  /\ last'.result = "ok"
                 /\ LET m == MetricsOf(session_analytics', s)
                    IN  /\ m.bug_fixes_attempted = opened
                        /\ m.bug_fixes_resolved = resolved
                        /\ m.bug_fix_success_rate =
                              (IF opened > 0 THEN <<resolved, opened>> ELSE <<1, 1>>)]_vars

\* C18: the snapshot count in the metrics end_session returns is the number
\* of snapshots taken in the session (counted without or with the final
\* snapshot the call itself takes), however many were taken.
C18_MetricsCountSnapshots ==
    [][(last'.op = "end_session" /\ last'.result = "ok")
          => LET s == last'.session_id
                 m == MetricsOf(session_analytics', s)
             IN  \/ m.snapshots_created = Len(SnapsOf(session_snapshots, s))
                 \/ m.snapshots_created = Len(SnapsOf(session_snapshots', s))]_vars

\* C19: when a durable-store write made by an operation fails (the INSERT is
\* refused with IntegrityError), the operation leaves the durable store and
\* the working set exactly as they were before it began.
C19_FailedWriteChangesNothing ==
    [][last'.result = "IntegrityError"
          => UNCHANGED <<store, active_sessions>>]_vars

\* what the store and the working set hold for one session
SessionView(st, session_id) ==
    [row |-> IF session_id \in DOMAIN st.sessions
             THEN <<st.sessions[session_id]>> ELSE <<>>,
     working |-> IF session_id \in DOMAIN st.active_sessions
                 THEN <<st.active_sessions[session_id]>> ELSE <<>>,
     snapshots |-> SnapsOf(st.session_snapshots, session_id),
     contexts |-> ContextsOf(st.bug_fix_contexts, session_id)]

HasDied(process) == process \in {"exited", "closed"}

\* C23: after start_all returns True, get_server_status reports
\* system_status running and each of the four registered servers with
\* status running and a pid.
C23_StartAllStartsEveryServer ==
    [][(reply'.op = "start_all" /\ reply'.res)
          => LET status == get_server_status(O')
             IN  /\ status.system_status = "running"
                 /\ \A n \in ServerNames :
                       /\ status.servers[n].status = "running"
                       /\ status.servers[n].pid # NoProcess]_vars

\* every server shutdown_all has to stop can be stopped
AllStop(o) ==
    \A i \in 1..Len(shutdown_order) : stop_server(o, shutdown_order[i]).res

\* C24: shutdown_all returns True whenever every server it has to stop
\* stops successfully, and get_server_status then reports system_status
\* stopped; restart_all, in such a state, goes on to start_all and returns
\* what start_all returns.
C24_ShutdownAllSucceeds ==
    [][/\ reply'.op = "shutdown_all"
            => /\ AllStop(O) => reply'.res
               /\ get_server_status(O').system_status = "stopped"
       /\ (reply'.op = "restart_all" /\ AllStop(O))
            => LET started == start_all(shutdown_all(O).o, reply'.spawn)
               IN  /\ reply'.res = started.res
                   /\ O' = started.o]_vars

\* C25: after a successful start_all, with no server process having died,
\* health_check reports system_healthy true and every server healthy.
C25_HealthyAfterStartAll ==
    [][(/\ reply'.op = "start_all"
        /\ reply'.res
        /\ \A n \in ServerNames : ~HasDied(servers'[n].process))
          => LET health == health_check(O')
             IN  /\ health.system_healthy
                 /\ \A n \in ServerNames : health.servers[n] = "healthy"]_vars

\* C27: while the system is running and monitored, a started server whose
\* process has died eventually has a live process and status running again
\* (or the system has stopped running, or the server is no longer marked
\* running because it was stopped or a spawn of it failed).
C27_MonitorRestartsDeadServer ==
    \A n \in ServerNames :
        (/\ monitoring
         /\ running
         /\ servers[n].status = "running"
         /\ HasDied(servers[n].process))
            ~> (\/ ~monitoring
                \/ ~running
                \/ servers[n].status # "running"
                \/ IsAlive(servers[n].process))

\* C21: create_session with an empty project_id or an empty technology
\* fails with InvalidArgument and creates no session row, no working state
\* and no snapshot.
C21_EmptyArgumentRejected ==
    [][(/\ last'.op = "create_session"
        /\ (last'.session_id[1] = "" \/ last'.session_id[2] = ""))
          => /\ last'.result = "InvalidArgument"
             /\ sessions' = sessions
             /\ active_sessions' = active_sessions
             /\ session_snapshots' = session_snapshots]_vars

\* the number of persisted bug-fix contexts of the session without a
\* recorded resolution
UnresolvedCount(rows, session_id) ==
    Len(ContextsOf(rows, session_id)) - ResolvedCount(rows, session_id)

\* C22: predict_outcome for an active session reflects the bug-fix contexts
\* currently unresolved in it: the prediction is the one computed from that
\* number (30 minutes of remaining time for each, a lower completion
\* probability when there are more than two).
C22_PredictionCountsUnresolved ==
    \A s \in DOMAIN active_sessions :
        predict_session_outcome(St, s, clock)
            = Prediction(SessionDuration(St, s, clock),
                         UnresolvedCount(bug_fix_contexts, s),
                         HistoricalAverage(St, s))

C28_NoIdClash ==
    [][last'.op \in {"create_snapshot", "start_bug_fix", "resolve_bug_fix",
                     "restore_snapshot", "end_session"}
          => last'.result # "IntegrityError"]_vars

\* the bug-fix contexts a working state lists, with their statuses
ListedContexts(session) ==
    [i \in 1..Len(session.bug_fixes) |->
        <<session.bug_fixes[i].context_id, session.bug_fixes[i].status>>]

\* C29: restore_snapshot on an active session, of a snapshot of that
\* session, changes neither which bug-fix contexts the working state lists
\* nor their statuses.
C29_RestoreKeepsBugFixes ==
    [][(/\ last'.op = "restore_snapshot"
        /\ last'.session_id \in DOMAIN active_sessions
        /\ BelongsTo(last'.snapshot_id, last'.session_id))
          => /\ last'.session_id \in DOMAIN active_sessions'
             /\ ListedContexts(active_sessions'[last'.session_id])
                   = ListedContexts(active_sessions[last'.session_id])]_vars

\* C30: end_session on a session of the working set (in a second in which
\* the session has no snapshot yet, and with a working state that can be
\* serialized) succeeds: it stores the metrics, completes the session and
\* takes it out of the working set, whatever operations preceded it,
\* restore_snapshot included.
C30_ActiveSessionCanEnd ==
    [][(/\ last'.op = "end_session"
        /\ last'.session_id \in DOMAIN active_sessions
        /\ ~HasSnapshot(St, SnapshotId(last'.session_id, clock))
        /\ ~CircularReference(active_sessions[last'.session_id]))
          => /\ last'.result = "ok"
             /\ sessions'[last'.session_id].status = "completed"
             /\ last'.session_id \notin DOMAIN active_sessions'
             /\ \E i \in 1..Len(session_analytics') :
                   session_analytics'[i].session_id = last'.session_id]_vars

====
